---- MODULE Spec2Model ----
(***************************************************************************)
(* The generate -> review -> execute -> retry -> remember pipeline of      *)
(* OrchestratorAgent (agents/orchestrator.py) together with CriticAgent    *)
(* (agents/critic.py), CoderAgent (agents/coder.py) and CodeExecutor       *)
(* (core/execution_engine.py).                                             *)
(*                                                                         *)
(* A code string is a record [text, body]: text is the set of the tokens  *)
(* that occur in the string as substrings (`term in code` is membership),  *)
(* body is what exec() of the string does to the persistent globals.       *)
(***************************************************************************)
EXTENDS Naturals, Sequences, FiniteSets

\* ------------------------------------------------------------------ bounds
\* queries handled by one OrchestratorAgent (one executor, one globals dict)
MaxQueries == 2

\* consecutive provider requests that may fail at the start of one call_llm
MaxFailures == 2

\* ------------------------------------------------------- program constants
\* orchestrator.py:88  for attempt in range(3)
MaxAttempts == 3
\* orchestrator.py:114 len(text_output) < 2000
MaxAnswerLen == 2000

None == "None"
\* the values a not yet assigned variable holds
NoCode == [text |-> {}, body |-> [binds |-> FALSE, fails |-> "unset"]]
NoTuple == <<>>
NoResult == [head |-> "unset", issues |-> <<>>]
NoResponse == [agent |-> "unset", action |-> "unset",
               result |-> [prefix |-> "", text |-> ""],
               confidence |-> "unset", code |-> NoCode]

\* critic.py:25 (the list, in its order)
forbidden == <<"os.system", "subprocess", "shutil", "sys.exit", "rm -rf">>
Forbidden == {forbidden[i] : i \in 1..Len(forbidden)}
\* execution_engine.py:54
ExecutorForbidden == {"os.system", "subprocess", "sys.exit"}
\* critic.py:32-33
PrintPattern == "print("
PlotPatterns == {"fig =", "fig=", "plt."}

\* ------------------------------------------------------------------ inputs
\* the substrings the generator's output is drawn over
Vocabulary == {"subprocess", "shutil", "print("}
\* the name a generated program may bind in / read from the globals dict
AuxName == "x"
\* what exec() of a program does: it may bind AuxName first, and then raises
\* always (an Exception), never, only when AuxName was unbound when the run
\* began (an Exception), or it raises SystemExit ("exit": `raise SystemExit`,
\* `quit()`), which is a BaseException and no Exception
Bodies == [binds : BOOLEAN, fails : {"never", "always", "if_unbound", "exit"}]
Programs == [text : SUBSET Vocabulary, body : Bodies]
Queries == {"q1", "q2"}
\* what the LLM provider does during one call_llm: its first `failures`
\* requests time out or fail, a later one answers `answer`
LlmOutcomes == [failures : 0..MaxFailures, answer : Programs]
\* lengths of the stdout text a successful run captured (after strip)
OutputLens == {0, 1999, 2000}

VARIABLES
    pc,          \* position in OrchestratorAgent.act / _execute_with_retry
    query,       \* act: query
    code0,       \* act: code (the coder's first answer)
    code,        \* _execute_with_retry: code
    attempt,     \* _execute_with_retry: attempt (loop index)
    ret,         \* what the last execute_code call returned (a tuple)
    criticResult,\* act: critic_result.result
    retval,      \* what _execute_with_retry returned (a 4-tuple), or None
    response,    \* the AgentResult act returned, or None
    globals,     \* executor.globals: the names bound in the persistent context
    memory,      \* orchestrator.memory is set (TRUE) or None (FALSE)
    saved,       \* the (intent, code) pairs handed to memory.save_context in this query
    escaped,     \* the exception that left act, or None
    nQueries,    \* queries started so far
    execCalls,   \* calls of executor.execute_code in this query
    genCalls,    \* calls of coder.run in this query
    reviews,     \* calls of critic.run in this query
    reviewed,    \* the code the critic was given, or None
    failedAttempts, \* loop iterations that reached "Attempt n failed" in this query
    execdTerms,  \* Forbidden terms of the programs that reached exec() in this query
    firstFailed, \* the first execute_code call of this query returned failure
    okCode,      \* the code whose execute_code call returned success, or None
    llm,         \* the last call_llm: requests made, models asked, failed, failures met
    genFailed,   \* a call_llm of this query failed on both of its requests
    assigned,    \* the names executed code has assigned since the executor was built
    collection,  \* CodeMemory.collection: identifier -> stored record
    issued,      \* the identifiers uuid4 has returned
    memOp,       \* the last CodeMemory operation
    before,      \* CodeMemory.collection as that operation found it
    recalled,    \* what the last recall returned
    handlers,    \* api: each request's handler: kind, position and locals
    lock,        \* api: state.lock: the request holding it, or 0
    stateData,   \* api: state.data
    stateCortex, \* api: state.cortex: the orchestrator object, or 0 for None
    heap,        \* the orchestrator objects built so far, by object number
    xGlobals,    \* executor.globals: the fig and result bindings
    figures,     \* pyplot's open figures, each named by the execution that made it
    sysStdout,   \* the stream sys.stdout names
    stdoutBefore,\* the stream sys.stdout named when the last execute_code began
    xRet,        \* what the last execute_code returned, or <<>>
    xEscapes,    \* the exception that left the last execute_code, or None
    xCall,       \* the last execute_code call: its code and what savefig did
    atCapture,   \* the figures open when _capture_plot was entered in that call
    nExec,       \* execute_code calls so far
    cxPc,        \* position in CortexAgent.act / _execute_with_retry
    cxQuery,     \* CortexAgent.act: query
    cxCode,      \* CortexAgent._execute_with_retry: code
    cxAttempt,   \* CortexAgent._execute_with_retry: attempt
    cxRet,       \* what the CortexAgent's last execute_code call returned
    cxRetval,    \* what CortexAgent._execute_with_retry returned, or <<>>
    cxResponse,  \* the AgentResult CortexAgent.act returned, or None
    cxEscaped,   \* the exception that left CortexAgent.act, or None
    cxGlobals,   \* the names bound in the CortexAgent's executor.globals
    cxQueries,   \* queries the CortexAgent has started
    pData,       \* the dataset handed to AgentContext(data)
    profile      \* the AgentContext built from it, or what its constructor raised

\* the orchestrator and its agents
orchVars == <<pc, query, code0, code, attempt, ret, criticResult, retval,
              response, globals, memory, saved, escaped, nQueries, execCalls,
              genCalls, reviews, reviewed, failedAttempts, execdTerms,
              firstFailed, okCode, llm, genFailed, assigned>>
\* the CodeMemory store
memVars == <<collection, issued, memOp, before, recalled>>

\* the service
apiVars == <<handlers, lock, stateData, stateCortex, heap>>

\* one CodeExecutor, its bindings, pyplot and sys.stdout
execVars == <<xGlobals, figures, sysStdout, stdoutBefore, xRet, xEscapes,
              xCall, atCapture, nExec>>

\* the CortexAgent (agents/cortex_agent.py)
cortexVars == <<cxPc, cxQuery, cxCode, cxAttempt, cxRet, cxRetval, cxResponse,
                cxEscaped, cxGlobals, cxQueries>>

\* the dataset profile (AgentContext)
profileVars == <<pData, profile>>

vars == <<orchVars, memVars, apiVars, execVars, cortexVars, profileVars>>

\* what a step of a query does not touch
Elsewhere == <<memVars, apiVars, execVars, cortexVars, profileVars>>

\* ----------------------------------------------------------------- coder
\* agentic_base.py:18, 34-36
DefaultModel == "deepseek-v3.1:671b-cloud"
FallbackModel == "llama3.1"
\* the empty string
EmptyCode == [text |-> {}, body |-> [binds |-> FALSE, fails |-> "never"]]

\* a call_llm that gives up after the first failed request
CallLlmNoRetry(model, o, n) ==
    IF n + 1 > o.failures
    THEN [result |-> o.answer, requests |-> n + 1, models |-> <<model>>,
          failed |-> FALSE]
    ELSE [result |-> EmptyCode, requests |-> n + 1, models |-> <<model>>,
          failed |-> TRUE]

\* call_llm(prompt, model): request number n + 1 goes to `model`; when it fails
\* and the model is not the fallback, the call recurses with the fallback
\* model, otherwise it returns ""
RECURSIVE CallLlm(_, _, _)
CallLlm(model, o, n) ==
    IF n + 1 > o.failures
    THEN [result |-> o.answer, requests |-> n + 1, models |-> <<model>>,
          failed |-> FALSE]
    ELSE IF model # FallbackModel
         THEN LET r == CallLlm(FallbackModel, o, n + 1)
              IN  [r EXCEPT !.models = <<model>> \o @]
         ELSE [result |-> EmptyCode, requests |-> n + 1, models |-> <<model>>,
               failed |-> TRUE]

\* the markdown fences (three backticks, with and without "python")
Fences == {"[fence]python", "[fence]"}

\* CoderAgent.act: strip, drop the markdown fences, strip
Clean(c) == [c EXCEPT !.text = @ \ Fences]

\* CoderAgent.run: the prompt goes to call_llm with the default model
CoderRun(o) ==
    LET r == CallLlm(DefaultModel, o, 0)
    IN  [r EXCEPT !.result = Clean(@)]

\* what one coder.run leaves behind, besides its result
Generates(r, o) ==
    /\ llm' = [requests |-> r.requests, models |-> r.models, failed |-> r.failed,
               failures |-> o.failures]
    /\ genFailed' = (genFailed \/ r.failed)
    /\ genCalls' = genCalls + 1

\* ---------------------------------------------------------------- critic
\* `term in code`
Contains(term, c) == term \in c.text

Issue(term) == <<"Security Risk: Found forbidden term", term>>
LogicIssue == <<"Logic Error: Code does not print output or generate a chart.", "">>

\* a critic whose output check knows print( only
CriticThinkPrintOnly(c) ==
    LET found == SelectSeq(forbidden, LAMBDA t : Contains(t, c))
        security == [i \in 1..Len(found) |-> Issue(found[i])]
        issues == IF ~Contains(PrintPattern, c)
                  THEN Append(security, LogicIssue) ELSE security
    IN  [is_safe |-> Len(issues) = 0, issues |-> issues]

\* CriticAgent.think: the issues, in the order the code appends them
CriticThink(c) ==
    LET found == SelectSeq(forbidden, LAMBDA t : Contains(t, c))
        security == [i \in 1..Len(found) |-> Issue(found[i])]
        has_print == Contains(PrintPattern, c)
        has_plot == \E p \in PlotPatterns : Contains(p, c)
        issues == IF ~has_print /\ ~has_plot
                  THEN Append(security, LogicIssue) ELSE security
    IN  [is_safe |-> Len(issues) = 0, issues |-> issues]

\* a critic that reports only the first issue it found
CriticActFirstIssue(plan) ==
    IF plan.is_safe
    THEN [action |-> "approve_code",
          result |-> [head |-> "APPROVED", issues |-> <<>>], confidence |-> "1.0"]
    ELSE [action |-> "reject_code",
          result |-> [head |-> "REJECTED", issues |-> <<plan.issues[1]>>],
          confidence |-> "0.0"]

\* CriticAgent.act: result is "APPROVED", or "REJECTED: " and the joined issues
CriticAct(plan) ==
    IF plan.is_safe
    THEN [action |-> "approve_code",
          result |-> [head |-> "APPROVED", issues |-> <<>>], confidence |-> "1.0"]
    ELSE [action |-> "reject_code",
          result |-> [head |-> "REJECTED", issues |-> plan.issues],
          confidence |-> "0.0"]

\* BaseAgent.run of the critic: think, then act
CriticRun(c) == CriticAct(CriticThink(c))

\* -------------------------------------------------------------- executor
\* exec(code, self.globals): the globals after the run and whether it raised
RunBody(b, g) ==
    [globals |-> IF b.binds THEN g \cup {AuxName} ELSE g,
     raised |-> b.fails = "always" \/ (b.fails = "if_unbound" /\ AuxName \notin g),
     exits |-> b.fails = "exit"]

SecurityTrace ==
    [text |-> "Traceback: ValueError: Security Violation: Forbidden OS commands detected.",
     len |-> 0]
ExecTrace == [text |-> "Traceback: Exception", len |-> 0]
Stdout(len) == [text |-> "stdout", len |-> len]

\* except Exception (execution_engine.py:70): is the exception caught
Catches(exc) == exc = "Exception"

\* CodeExecutor.execute_code: the tuple it returns (4 values on success, 3 on
\* failure; none when an exception leaves the call, named in `escapes`), the
\* globals it leaves, and whether exec() was reached.
\* No program of Programs assigns `result` or creates a figure: both are None.
ExecuteCode(c, g, len) ==
    IF \E t \in ExecutorForbidden : Contains(t, c)
    THEN [ret |-> <<FALSE, None, SecurityTrace>>, globals |-> g, execd |-> FALSE,
          escapes |-> None]
    ELSE LET r == RunBody(c.body, g)
             exc == IF r.exits THEN "SystemExit"
                    ELSE IF r.raised THEN "Exception" ELSE None
         IN  IF exc = None
             THEN [ret |-> <<TRUE, None, Stdout(len), None>>,
                   globals |-> r.globals, execd |-> TRUE, escapes |-> None]
             ELSE IF Catches(exc)
                  THEN [ret |-> <<FALSE, None, ExecTrace>>, globals |-> r.globals,
                        execd |-> TRUE, escapes |-> None]
                  ELSE [ret |-> NoTuple, globals |-> r.globals,
                        execd |-> TRUE, escapes |-> exc]

\* ---------------------------------------------------------- orchestrator
\* a check that misspells the marker and so never matches
IsRejectedMisspelt(r) == r.head = "Rejected"

\* "REJECTED" in str(critic_result.result)
IsRejected(r) == r.head = "REJECTED"

\* the message built from the loop index instead of the literal
ExhaustedMsgFromIndex == [text |-> "Execution failed after 2 attempts.", len |-> 34]

\* _execute_with_retry: the value returned after the loop
ExhaustedMsg == [text |-> "Execution failed after 3 attempts.", len |-> 34]

\* OrchestratorAgent._synthesize_answer
SynthesizeAnswer(output, success) ==
    IF ~success
    THEN [prefix |-> "I failed to analyze the data. Error:\n", text |-> output.text,
          len |-> output.len, suffix |-> ""]
    ELSE IF output.len < MaxAnswerLen
         THEN [prefix |-> "", text |-> output.text, len |-> output.len, suffix |-> ""]
         ELSE [prefix |-> "Result:\n", text |-> output.text, len |-> MaxAnswerLen,
               suffix |-> "..."]

\* the AgentResult built without its confidence argument (the default is 1.0)
ConfidenceDefault(success) == "1.0"

\* act: confidence=1.0 if success else 0.0
Confidence(success) == IF success THEN "1.0" ELSE "0.0"

\* the save guarded by self.memory alone
SaveWheneverMemory(success, mem) == mem

\* act: if success and self.memory
SaveCondition(success, mem) == success /\ mem

\* act: the code stored in metadata and handed to memory.save_context is act's
\* own local `code`, the coder's first answer
ReportedCode(first, final) == first

\* state every step of a query leaves alone unless it says otherwise
Session == <<memory, nQueries>>

\* a query that starts from a fresh execution context
StartQueryReset(q) ==
    /\ UNCHANGED Elsewhere
    /\ pc \in {"idle", "done", "raised"}
    /\ nQueries < MaxQueries
    /\ nQueries' = nQueries + 1
    /\ pc' = "coder"
    /\ query' = q
    /\ code0' = NoCode /\ code' = NoCode /\ attempt' = 0
    /\ ret' = NoTuple /\ criticResult' = NoResult /\ retval' = NoTuple
    /\ response' = NoResponse /\ saved' = <<>> /\ escaped' = None
    /\ execCalls' = 0 /\ genCalls' = 0 /\ reviews' = 0 /\ reviewed' = NoCode
    /\ failedAttempts' = 0 /\ execdTerms' = {} /\ firstFailed' = FALSE
    /\ okCode' = NoCode
    /\ llm' = [requests |-> 0, models |-> <<>>, failed |-> FALSE, failures |-> 0]
    /\ genFailed' = FALSE
    /\ globals' = {"pd", "np", "df", "result"}
    /\ UNCHANGED <<memory, assigned>>

\* OrchestratorAgent.run -> think -> act: a query arrives
StartQuery(q) ==
    /\ UNCHANGED Elsewhere
    /\ pc \in {"idle", "done", "raised"}
    /\ nQueries < MaxQueries
    /\ nQueries' = nQueries + 1
    /\ pc' = "coder"
    /\ query' = q
    /\ code0' = NoCode /\ code' = NoCode /\ attempt' = 0
    /\ ret' = NoTuple /\ criticResult' = NoResult /\ retval' = NoTuple
    /\ response' = NoResponse /\ saved' = <<>> /\ escaped' = None
    /\ execCalls' = 0 /\ genCalls' = 0 /\ reviews' = 0 /\ reviewed' = NoCode
    /\ failedAttempts' = 0 /\ execdTerms' = {} /\ firstFailed' = FALSE
    /\ okCode' = NoCode
    /\ llm' = [requests |-> 0, models |-> <<>>, failed |-> FALSE, failures |-> 0]
    /\ genFailed' = FALSE
    /\ UNCHANGED <<globals, memory, assigned>>

\* act step 1: coder_result = self.coder.run(query)
CoderInitial(o) ==
    /\ UNCHANGED Elsewhere
    /\ pc = "coder"
    /\ LET r == CoderRun(o)
       IN  code0' = r.result /\ Generates(r, o)
    /\ pc' = "critic"
    /\ UNCHANGED <<query, code, attempt, ret, criticResult, retval, response,
                   globals, saved, escaped, execCalls, reviews, reviewed,
                   failedAttempts, execdTerms, firstFailed, okCode, assigned, Session>>

\* act step 2: critic_result = self.critic.run(code); on REJECTED return the error
CriticReview ==
    /\ UNCHANGED Elsewhere
    /\ pc = "critic"
    /\ LET r == CriticRun(code0).result
       IN  /\ criticResult' = r
           /\ IF IsRejected(r)
              THEN /\ response' = [agent |-> "Orchestrator", action |-> "error",
                                   result |-> [prefix |-> "Code check failed: ",
                                               text |-> r.head, issues |-> r.issues],
                                   confidence |-> "0.0", code |-> NoCode]
                   /\ pc' = "done"
                   /\ UNCHANGED code
              ELSE /\ pc' = "execute"
                   /\ code' = code0
                   /\ UNCHANGED response
    /\ reviews' = reviews + 1
    /\ reviewed' = code0
    /\ UNCHANGED <<query, code0, attempt, ret, retval, globals, saved, escaped,
                   execCalls, genCalls, failedAttempts, execdTerms, firstFailed,
                   okCode, assigned, Session, llm, genFailed>>

\* what one call of execute_code changes, whichever statement makes it
Executes(r) ==
    /\ UNCHANGED Elsewhere
    /\ ret' = r.ret
    /\ globals' = r.globals
    /\ execCalls' = execCalls + 1
    /\ execdTerms' = IF r.execd
                     THEN execdTerms \cup {t \in Forbidden : Contains(t, code)}
                     ELSE execdTerms
    /\ firstFailed' = IF execCalls = 0 THEN Len(r.ret) > 0 /\ ~r.ret[1]
                     ELSE firstFailed
    /\ okCode' = IF Len(r.ret) > 0 /\ r.ret[1] THEN code ELSE okCode
    /\ assigned' = IF r.execd /\ code.body.binds
                   THEN assigned \cup {AuxName} ELSE assigned

\* _execute_with_retry: success, result, output, plot_data = execute_code(code)
\* a 3-tuple does not unpack into 4 names: ValueError, caught at line 92
ExecPrimary(len) ==
    /\ pc = "execute"
    /\ LET r == ExecuteCode(code, globals, len)
       IN  /\ Executes(r)
           /\ IF r.escapes # None
              THEN /\ pc' = "raised"
                   /\ escaped' = r.escapes
                   /\ UNCHANGED <<retval, failedAttempts>>
              ELSE IF Len(r.ret) = 4
              THEN IF r.ret[1]
                   THEN /\ retval' = <<TRUE, r.ret[2], r.ret[3], r.ret[4]>>
                        /\ pc' = "returned"
                        /\ UNCHANGED <<failedAttempts, escaped>>
                   ELSE /\ pc' = "regenerate"
                        /\ failedAttempts' = failedAttempts + 1
                        /\ UNCHANGED <<retval, escaped>>
              ELSE /\ pc' = "fallback"
                   /\ UNCHANGED <<retval, failedAttempts, escaped>>
    /\ UNCHANGED <<query, code0, code, attempt, criticResult, response, saved,
                   genCalls, reviews, reviewed, Session, llm, genFailed>>

\* the except ValueError branch: success, result, output = execute_code(code)
\* a 4-tuple does not unpack into 3 names: ValueError, raised inside the handler
ExecFallback(len) ==
    /\ pc = "fallback"
    /\ LET r == ExecuteCode(code, globals, len)
       IN  /\ Executes(r)
           /\ IF r.escapes # None
              THEN /\ pc' = "raised"
                   /\ escaped' = r.escapes
                   /\ UNCHANGED <<retval, failedAttempts>>
              ELSE IF Len(r.ret) = 3
              THEN IF r.ret[1]
                   THEN /\ retval' = <<TRUE, r.ret[2], r.ret[3], None>>
                        /\ pc' = "returned"
                        /\ UNCHANGED <<failedAttempts, escaped>>
                   ELSE /\ pc' = "regenerate"
                        /\ failedAttempts' = failedAttempts + 1
                        /\ UNCHANGED <<retval, escaped>>
              ELSE /\ pc' = "raised"
                   /\ escaped' = "ValueError"
                   /\ UNCHANGED <<retval, failedAttempts>>
    /\ UNCHANGED <<query, code0, code, attempt, criticResult, response, saved,
                   genCalls, reviews, reviewed, Session, llm, genFailed>>

\* the retry that sends the regenerated code through the critic again
RegenerateReviewed(o) ==
    /\ UNCHANGED Elsewhere
    /\ pc = "regenerate"
    /\ LET r == CoderRun(o)
       IN  code' = r.result /\ reviewed' = r.result /\ Generates(r, o)
    /\ attempt' = attempt + 1
    /\ reviews' = reviews + 1
    /\ IF attempt + 1 < MaxAttempts
       THEN pc' = "execute" /\ UNCHANGED retval
       ELSE pc' = "returned" /\ retval' = <<FALSE, None, ExhaustedMsg, None>>
    /\ UNCHANGED <<query, code0, ret, criticResult, response, globals, saved,
                   escaped, execCalls, failedAttempts,
                   execdTerms, firstFailed, okCode, assigned, Session>>

\* code = self.coder.run(retry_prompt).result, then the next iteration of
\* `for attempt in range(3)`, or the return after the loop
Regenerate(o) ==
    /\ UNCHANGED Elsewhere
    /\ pc = "regenerate"
    /\ LET r == CoderRun(o)
       IN  code' = r.result /\ Generates(r, o)
    /\ attempt' = attempt + 1
    /\ IF attempt + 1 < MaxAttempts
       THEN pc' = "execute" /\ UNCHANGED retval
       ELSE pc' = "returned" /\ retval' = <<FALSE, None, ExhaustedMsg, None>>
    /\ UNCHANGED <<query, code0, ret, criticResult, response, globals, saved,
                   escaped, execCalls, reviews, reviewed, failedAttempts,
                   execdTerms, firstFailed, okCode, assigned, Session>>

\* act steps 4 and 5: save to memory, synthesize the answer, return the AgentResult
Finish ==
    /\ UNCHANGED Elsewhere
    /\ pc = "returned"
    /\ LET success == retval[1]
           output == retval[3]
       IN  /\ saved' = IF SaveCondition(success, memory)
                       THEN Append(saved, [intent |-> query,
                                           code |-> ReportedCode(code0, code)])
                       ELSE saved
           /\ response' = [agent |-> "Orchestrator", action |-> "final_answer",
                           result |-> SynthesizeAnswer(output, success),
                           confidence |-> Confidence(success),
                           code |-> ReportedCode(code0, code)]
    /\ pc' = "done"
    /\ UNCHANGED <<query, code0, code, attempt, ret, criticResult, retval, globals,
                   escaped, execCalls, genCalls, reviews, reviewed, failedAttempts,
                   execdTerms, firstFailed, okCode, assigned, Session, llm, genFailed>>

\* no AgentContext under construction
NoDataset == [columns |-> <<>>]
NoProfile ==
    [raised |-> "unset", columns |-> <<>>, numeric_cols |-> <<>>,
     categorical_cols |-> <<>>, id_cols |-> <<>>, target_cols |-> <<>>,
     value_to_cols |-> <<>>]
ProfileNone == pData = NoDataset /\ profile = NoProfile

\* CortexAgent.__init__: its own executor, nothing asked yet
CortexIdle ==
    /\ cxPc = "idle" /\ cxQuery = None /\ cxCode = NoCode /\ cxAttempt = 0
    /\ cxRet = NoTuple /\ cxRetval = NoTuple /\ cxResponse = NoResponse
    /\ cxEscaped = None
    /\ cxGlobals = {"pd", "np", "df", "result"}
    /\ cxQueries = 0

\* an artifact slot and a result binding that hold None
NoArtifact == [type |-> "none", by |-> 0]
NoValue == [by |-> 0]
\* no call made yet
NoExecCall ==
    [code |-> [fig |-> "keep", plots |-> FALSE, result |-> FALSE,
               stdout |-> "silent", ends |-> "unset"],
     saveOk |-> TRUE]

\* CodeExecutor.__init__ in a process that has drawn nothing and whose
\* sys.stdout is stream
ExecutorIn(stream) ==
    /\ xGlobals = [fig |-> "unbound", figBy |-> 0, result |-> NoValue]
    /\ figures = {}
    /\ sysStdout = stream /\ stdoutBefore = stream
    /\ xRet = <<>> /\ xEscapes = None
    /\ xCall = NoExecCall
    /\ atCapture = {}
    /\ nExec = 0

ExecutorFresh == ExecutorIn("console")

\* the requests the service is sent
MaxRequests == 3
Requests == 1 .. MaxRequests

\* a service no request has reached and no dataset is loaded in
ServiceDown ==
    /\ handlers = [r \in Requests |->
                     [kind |-> "none", pc |-> "new", data |-> None,
                      exists |-> FALSE, cortex |-> 0, status |-> 0]]
    /\ lock = 0 /\ stateData = None /\ stateCortex = 0 /\ heap = <<>>

\* a CodeMemory nothing has been saved to
MemoryEmpty ==
    /\ collection = <<>> /\ issued = {} /\ memOp = "none"
    /\ before = <<>> /\ recalled = <<>>

\* OrchestratorAgent.__init__: a fresh executor (pd, np, df, result bound), and
\* self.memory, which the switch at orchestrator.py:26 sets or leaves None
Init ==
    /\ MemoryEmpty /\ ServiceDown /\ ExecutorFresh /\ CortexIdle /\ ProfileNone
    /\ pc = "idle"
    /\ memory \in BOOLEAN
    /\ globals = {"pd", "np", "df", "result"}
    /\ nQueries = 0
    /\ query = None
    /\ code0 = NoCode /\ code = NoCode /\ attempt = 0
    /\ ret = NoTuple /\ criticResult = NoResult /\ retval = NoTuple
    /\ response = NoResponse /\ saved = <<>> /\ escaped = None
    /\ execCalls = 0 /\ genCalls = 0 /\ reviews = 0 /\ reviewed = NoCode
    /\ failedAttempts = 0 /\ execdTerms = {} /\ firstFailed = FALSE
    /\ okCode = NoCode
    /\ llm = [requests |-> 0, models |-> <<>>, failed |-> FALSE, failures |-> 0]
    /\ genFailed = FALSE
    /\ assigned = {}

Next ==
    \/ \E q \in Queries : StartQuery(q)
    \/ \E o \in LlmOutcomes : CoderInitial(o)
    \/ CriticReview
    \/ \E len \in OutputLens : ExecPrimary(len)
    \/ \E len \in OutputLens : ExecFallback(len)
    \/ \E o \in LlmOutcomes : Regenerate(o)
    \/ Finish

Spec == Init /\ [][Next]_vars

\* ------------------------------------------------- the critic on any code
\* every substring the critic looks for
CriticTokens == Forbidden \cup {PrintPattern} \cup PlotPatterns
\* a code string for each set of them
ReviewInputs == [text : SUBSET CriticTokens,
                 body : {[binds |-> FALSE, fails |-> "never"]}]

\* act has its coder_result and is about to call the critic
InitCritic ==
    /\ MemoryEmpty /\ ServiceDown /\ ExecutorFresh /\ CortexIdle /\ ProfileNone
    /\ pc = "critic"
    /\ code0 \in ReviewInputs
    /\ query \in Queries
    /\ memory = FALSE
    /\ globals = {"pd", "np", "df", "result"}
    /\ nQueries = 1
    /\ code = NoCode /\ attempt = 0
    /\ ret = NoTuple /\ criticResult = NoResult /\ retval = NoTuple
    /\ response = NoResponse /\ saved = <<>> /\ escaped = None
    /\ execCalls = 0 /\ genCalls = 1 /\ reviews = 0 /\ reviewed = NoCode
    /\ failedAttempts = 0 /\ execdTerms = {} /\ firstFailed = FALSE
    /\ okCode = NoCode
    /\ llm = [requests |-> 1, models |-> <<DefaultModel>>, failed |-> FALSE,
              failures |-> 0]
    /\ genFailed = FALSE
    /\ assigned = {}

NextCritic == CriticReview

SpecCritic == InitCritic /\ [][NextCritic]_vars

\* ------------------------------------------ CodeMemory (vector_store.py)
\* the most records the store is driven to
MaxRecords == 3
\* the identifiers uuid4 draws from
Ids == 1 .. MaxRecords
\* saved code strings
Snippets == {"c1", "c2"}
\* embedding distances a query can come back with, in tenths
Distances == {0, 5}

\* collection.add: a record under doc_id; an identifier already present is
\* left as it is
Add(col, doc_id, document, metadata) ==
    IF doc_id \in DOMAIN col
    THEN col
    ELSE [i \in DOMAIN col \cup {doc_id} |->
             IF i = doc_id
             THEN [document |-> document, metadata |-> metadata]
             ELSE col[i]]

\* a store that writes the record over whatever the identifier holds
Upsert(col, doc_id, document, metadata) ==
    [i \in DOMAIN col \cup {doc_id} |->
        IF i = doc_id
        THEN [document |-> document, metadata |-> metadata]
        ELSE col[i]]

\* a save keyed by the intent instead of a uuid
SaveContextKeyedByIntent(intent, c) ==
    /\ issued # Ids
    /\ LET doc_id == IF intent = "q1" THEN 1 ELSE 2
       IN  /\ issued' = issued \cup {doc_id}
           /\ collection' = Upsert(collection, doc_id, intent,
                                   [type |-> "code_snippet", code |-> c])
    /\ before' = collection
    /\ memOp' = "save_context"
    /\ UNCHANGED <<recalled, orchVars, apiVars, execVars, cortexVars, profileVars>>

\* CodeMemory.save_context(intent, code)
SaveContext(intent, c) ==
    /\ issued # Ids
    /\ \E doc_id \in Ids \ issued :
            /\ issued' = issued \cup {doc_id}
            /\ collection' = Add(collection, doc_id, intent,
                                 [type |-> "code_snippet", code |-> c])
    /\ before' = collection
    /\ memOp' = "save_context"
    /\ UNCHANGED <<recalled, orchVars, apiVars, execVars, cortexVars, profileVars>>

\* what recall makes of one query result: the code is popped out of the
\* metadata the query returned
Memory(rec, distance) ==
    [intent |-> rec.document, code |-> rec.metadata.code,
     distance |-> distance, metadata |-> [type |-> rec.metadata.type]]

\* CodeMemory.recall(query), n_results = 1
Recall(q) ==
    /\ \/ /\ DOMAIN collection = {}
          /\ recalled' = <<>>
       \/ \E i \in DOMAIN collection, d \in Distances :
              recalled' = <<Memory(collection[i], d)>>
    /\ before' = collection
    /\ memOp' = "recall"
    /\ UNCHANGED <<collection, issued, orchVars, apiVars, execVars, cortexVars, profileVars>>

\* CodeMemory.clear()
Clear ==
    /\ collection' = <<>>
    /\ before' = collection
    /\ memOp' = "clear"
    /\ UNCHANGED <<issued, recalled, orchVars, apiVars, execVars, cortexVars, profileVars>>

\* the orchestrator between queries
Idle ==
    /\ pc = "idle"
    /\ memory = TRUE
    /\ globals = {"pd", "np", "df", "result"}
    /\ nQueries = 0
    /\ query = None
    /\ code0 = NoCode /\ code = NoCode /\ attempt = 0
    /\ ret = NoTuple /\ criticResult = NoResult /\ retval = NoTuple
    /\ response = NoResponse /\ saved = <<>> /\ escaped = None
    /\ execCalls = 0 /\ genCalls = 0 /\ reviews = 0 /\ reviewed = NoCode
    /\ failedAttempts = 0 /\ execdTerms = {} /\ firstFailed = FALSE
    /\ okCode = NoCode
    /\ llm = [requests |-> 0, models |-> <<>>, failed |-> FALSE, failures |-> 0]
    /\ genFailed = FALSE
    /\ assigned = {}

InitMemory == Idle /\ MemoryEmpty /\ ServiceDown /\ ExecutorFresh /\ CortexIdle /\ ProfileNone

NextMemory ==
    \/ \E intent \in Queries, c \in Snippets : SaveContext(intent, c)
    \/ \E q \in Queries : Recall(q)
    \/ Clear

SpecMemory == InitMemory /\ [][NextMemory]_vars

\* --------------------------------------------------- the service (api.py)
\* the files a load can name
Datasets == {"sales", "hr"}
\* the columns of each
Columns(d) == IF d = "sales" THEN <<"id", "price">> ELSE <<"name", "dept", "score">>
\* AgentContext(data): the profile computed from the data
Profile(d) == [data |-> d, columns |-> Columns(d), col_count |-> Len(Columns(d))]

\* CodeExecutor.__init__: the bindings a new executor starts with; the field
\* by is the object whose executions made the binding, 0 for the constructor
BaseBindings == {[name |-> n, by |-> 0] : n \in {"pd", "np", "df", "result"}}
\* an executor handed on from the orchestrator it replaces
ExecutorGlobalsKept(prev) == prev
\* the globals of the executor a new orchestrator creates; prev is the
\* globals of the orchestrator being replaced
ExecutorGlobals(prev) == BaseBindings
\* OrchestratorAgent(context): context, executor; built records the data
\* the context was computed from
Orchestrator(d, prev) ==
    [profile |-> Profile(d), globals |-> ExecutorGlobals(prev), built |-> d]

\* handlers dispatched to worker threads as soon as they arrive
LoopIdleThreadpool == TRUE
\* the handlers are coroutines without an await: the event loop runs one to
\* its end before it starts the next
LoopIdle == \A r \in Requests : handlers[r].pc \in {"new", "pending", "done"}

\* a handler inside the region guarded by state.lock
InLoad(r) == handlers[r].pc \in {"load", "set_data", "set_cortex", "release"}
\* a handler inside state.cortex.run
InQuery(r) == handlers[r].pc = "a_running"

\* the requests a client can send: a query, a load of a named file that is
\* there or not, an upload
Sendable ==
    [kind : {"analyze"}, data : {None}, exists : {FALSE}]
    \cup [kind : {"load_data"}, data : Datasets, exists : {TRUE}]
    \cup [kind : {"load_data"}, data : {"missing"}, exists : {FALSE}]
    \cup [kind : {"upload_file"}, data : {"hr"}, exists : {TRUE}]

\* the handler of r returns its response; its locals are gone
Returns(r, status) ==
    [handlers EXCEPT ![r].pc = "done", ![r].status = status,
                     ![r].data = None, ![r].exists = FALSE]

\* a request reaches the server; requests are numbered as they arrive
Arrive(r, req) ==
    /\ handlers[r].pc = "new"
    /\ \A r0 \in Requests : r0 < r => handlers[r0].pc # "new"
    /\ handlers' = [handlers EXCEPT ![r] =
                       [kind |-> req.kind, pc |-> "pending", data |-> req.data,
                        exists |-> req.exists, cortex |-> 0, status |-> 0]]
    /\ UNCHANGED <<lock, stateData, stateCortex, heap, orchVars, memVars, execVars, cortexVars, profileVars>>

\* the event loop starts the handler of a waiting request
Dispatch(r) ==
    /\ handlers[r].pc = "pending"
    /\ LoopIdle
    /\ handlers' = [handlers EXCEPT ![r].pc =
                       IF handlers[r].kind = "analyze" THEN "a_check"
                       ELSE IF handlers[r].kind = "load_data" THEN "l_path"
                       ELSE "u_save"]
    /\ UNCHANGED <<lock, stateData, stateCortex, heap, orchVars, memVars, execVars, cortexVars, profileVars>>

\* analyze_data: if not state.cortex -> 400
AnalyzeCheck(r) ==
    /\ handlers[r].pc = "a_check"
    /\ handlers' = IF stateCortex = 0
                   THEN Returns(r, 400)
                   ELSE [handlers EXCEPT ![r].pc = "a_call"]
    /\ UNCHANGED <<lock, stateData, stateCortex, heap, orchVars, memVars, execVars, cortexVars, profileVars>>

\* analyze_data: state.cortex.run(request.query) is entered on the object
\* state.cortex names now; no lock is taken
AnalyzeCall(r) ==
    /\ handlers[r].pc = "a_call"
    /\ handlers' = IF stateCortex = 0
                   THEN Returns(r, 500)
                   ELSE [handlers EXCEPT ![r].pc = "a_running",
                                         ![r].cortex = stateCortex]
    /\ UNCHANGED <<lock, stateData, stateCortex, heap, orchVars, memVars, execVars, cortexVars, profileVars>>

\* what a run leaves in the globals of the executor it ran on
Bind(g, name, k) == {b \in g : b.name # name} \cup {[name |-> name, by |-> k]}

\* analyze_data: the run returns or raises; the code it executed may have
\* bound a name in its executor's globals
AnalyzeReturn(r, binds, raised) ==
    /\ handlers[r].pc = "a_running"
    /\ LET k == handlers[r].cortex
       IN  heap' = IF binds
                   THEN [heap EXCEPT ![k].globals = Bind(heap[k].globals, AuxName, k)]
                   ELSE heap
    /\ handlers' = Returns(r, IF raised THEN 500 ELSE 200)
    /\ UNCHANGED <<lock, stateData, stateCortex, orchVars, memVars, execVars, cortexVars, profileVars>>

\* load_data: the path is looked up; 404 when it does not exist
LoadPath(r) ==
    /\ handlers[r].pc = "l_path"
    /\ handlers' = IF handlers[r].exists
                   THEN [handlers EXCEPT ![r].pc = "acquire"]
                   ELSE Returns(r, 404)
    /\ UNCHANGED <<lock, stateData, stateCortex, heap, orchVars, memVars, execVars, cortexVars, profileVars>>

\* upload_file: the upload is copied under uploads/
UploadSave(r) ==
    /\ handlers[r].pc = "u_save"
    /\ handlers' = [handlers EXCEPT ![r].pc = "acquire"]
    /\ UNCHANGED <<lock, stateData, stateCortex, heap, orchVars, memVars, execVars, cortexVars, profileVars>>

\* load_data, upload_file: with state.lock
Acquire(r) ==
    /\ handlers[r].pc = "acquire"
    /\ lock = 0
    /\ lock' = r
    /\ handlers' = [handlers EXCEPT ![r].pc = "load"]
    /\ UNCHANGED <<stateData, stateCortex, heap, orchVars, memVars, execVars, cortexVars, profileVars>>

\* loader.load and AgentContext(data); an exception leaves the with block,
\* which releases the lock, and becomes a 500
Load(r, ok) ==
    /\ handlers[r].pc = "load"
    /\ IF ok
       THEN /\ handlers' = [handlers EXCEPT ![r].pc = "set_data"]
            /\ lock' = lock
       ELSE /\ handlers' = Returns(r, 500)
            /\ lock' = 0
    /\ UNCHANGED <<stateData, stateCortex, heap, orchVars, memVars, execVars, cortexVars, profileVars>>

\* state.data = data
SetData(r) ==
    /\ handlers[r].pc = "set_data"
    /\ stateData' = handlers[r].data
    /\ handlers' = [handlers EXCEPT ![r].pc = "set_cortex"]
    /\ UNCHANGED <<lock, stateCortex, heap, orchVars, memVars, execVars, cortexVars, profileVars>>

\* state.cortex = OrchestratorAgent(context); the handler's cortex field
\* records the object it built. The constructor can raise (CoderAgent's
\* _get_schema_summary reads df[col].dtype, which a table with two columns of
\* one name does not have): the exception leaves the with block, which
\* releases the lock, and becomes a 500
SetCortex(r, ok) ==
    /\ handlers[r].pc = "set_cortex"
    /\ IF ok
       THEN /\ LET prev == IF stateCortex = 0 THEN BaseBindings
                           ELSE heap[stateCortex].globals
               IN  heap' = Append(heap, Orchestrator(handlers[r].data, prev))
            /\ stateCortex' = Len(heap) + 1
            /\ handlers' = [handlers EXCEPT ![r].pc = "release",
                                            ![r].cortex = Len(heap) + 1]
            /\ lock' = lock
       ELSE /\ heap' = heap /\ stateCortex' = stateCortex
            /\ handlers' = Returns(r, 500)
            /\ lock' = 0
    /\ UNCHANGED <<stateData, orchVars, memVars, execVars, cortexVars, profileVars>>

\* the with block ends and the handler returns its 200
Release(r) ==
    /\ handlers[r].pc = "release"
    /\ lock' = 0
    /\ handlers' = Returns(r, 200)
    /\ UNCHANGED <<stateData, stateCortex, heap, orchVars, memVars, execVars, cortexVars, profileVars>>

\* startup_event: sales.csv is loaded when it is there
InitApi ==
    /\ Idle /\ MemoryEmpty /\ ExecutorFresh /\ CortexIdle /\ ProfileNone
    /\ handlers = [r \in Requests |->
                     [kind |-> "none", pc |-> "new", data |-> None,
                      exists |-> FALSE, cortex |-> 0, status |-> 0]]
    /\ lock = 0
    /\ \/ stateData = None /\ stateCortex = 0 /\ heap = <<>>
       \/ /\ stateData = "sales" /\ stateCortex = 1
          /\ heap = <<Orchestrator("sales", BaseBindings)>>

NextApi ==
    \/ \E r \in Requests, req \in Sendable : Arrive(r, req)
    \/ \E r \in Requests : Dispatch(r)
    \/ \E r \in Requests : AnalyzeCheck(r)
    \/ \E r \in Requests : AnalyzeCall(r)
    \/ \E r \in Requests, binds \in BOOLEAN, raised \in BOOLEAN :
          AnalyzeReturn(r, binds, raised)
    \/ \E r \in Requests : LoadPath(r)
    \/ \E r \in Requests : UploadSave(r)
    \/ \E r \in Requests : Acquire(r)
    \/ \E r \in Requests, ok \in BOOLEAN : Load(r, ok)
    \/ \E r \in Requests : SetData(r)
    \/ \E r \in Requests, ok \in BOOLEAN : SetCortex(r, ok)
    \/ \E r \in Requests : Release(r)

SpecApi == InitApi /\ [][NextApi]_vars

\* ------------------------- CodeExecutor in full (core/execution_engine.py)
\* the execute_code calls one executor is driven through
MaxExecs == 3
\* the streams sys.stdout may name when a call begins
Streams == {"console", "logfile"}
\* what exec() of a program does: it may bind fig to a figure whose to_json
\* works ("plotly"), to an object without to_json ("plain", as the Figure of
\* plt.subplots()) or to one whose to_json raises ("broken"); it may open a
\* pyplot figure; it may assign result; it may print, or assign sys.stdout
\* and print there; then it ends, raises an Exception or raises SystemExit
Effects ==
    [fig : {"keep", "plotly", "plain", "broken"}, plots : BOOLEAN,
     result : BOOLEAN, stdout : {"silent", "prints", "redirects"},
     ends : {"ok", "raise", "exit"}]
\* a program the precheck of execute_code stops before exec()
ForbiddenProgram ==
    [fig |-> "keep", plots |-> FALSE, result |-> FALSE, stdout |-> "silent",
     ends |-> "forbidden"]
ExecPrograms == Effects \cup {ForbiddenProgram}

\* exec(code, self.globals) of execution n: the bindings it leaves
ExecGlobals(c, g, n) ==
    [fig |-> IF c.fig = "keep" THEN g.fig ELSE c.fig,
     figBy |-> IF c.fig = "keep" THEN g.figBy ELSE n,
     result |-> IF c.result THEN [by |-> n] ELSE g.result]

\* the figure pyplot holds as current: the one opened last
Current(figs) == CHOOSE m \in figs : \A x \in figs : x <= m

\* a capture that looks at pyplot before it looks at fig
CapturePlotPyplotFirst(g, figs, saveOk) ==
    IF figs # {}
    THEN IF saveOk
         THEN [plot |-> [type |-> "image", by |-> Current(figs)], figures |-> {}]
         ELSE [plot |-> NoArtifact, figures |-> figs]
    ELSE IF g.fig = "plotly"
         THEN [plot |-> [type |-> "plotly", by |-> g.figBy], figures |-> figs]
         ELSE [plot |-> NoArtifact, figures |-> figs]

\* CodeExecutor._capture_plot: the artifact and the figures pyplot keeps; an
\* exception of to_json or savefig is swallowed and None returned
CapturePlot(g, figs, saveOk) ==
    IF g.fig \in {"plotly", "broken"}
    THEN IF g.fig = "plotly"
         THEN [plot |-> [type |-> "plotly", by |-> g.figBy], figures |-> figs]
         ELSE [plot |-> NoArtifact, figures |-> figs]
    ELSE IF figs # {}
         THEN IF saveOk
              THEN [plot |-> [type |-> "image", by |-> Current(figs)],
                    figures |-> {}]
              ELSE [plot |-> NoArtifact, figures |-> figs]
         ELSE [plot |-> NoArtifact, figures |-> figs]

\* a failure that hands back the result binding
FailureTupleWithResult(g, tb) == <<FALSE, g.result, tb>>
\* execute_code, except Exception: return False, None, tb
FailureTuple(g, tb) == <<FALSE, NoValue, tb>>

\* a restore made only on the way out of a return
RestoreOnReturnOnly(original_stdout, current, how) ==
    IF how = "returned" THEN original_stdout ELSE current
\* execute_code, finally: sys.stdout = original_stdout
Restore(original_stdout, current, how) == original_stdout

\* CodeExecutor.execute_code(code), the n-th call; saveOk: plt.savefig works
ExecuteCodeCall(c, saveOk) ==
    /\ nExec < MaxExecs
    /\ LET n == nExec + 1
           original_stdout == sysStdout
           stopped == c.ends = "forbidden"
           g1 == IF stopped THEN xGlobals ELSE ExecGlobals(c, xGlobals, n)
           figs1 == IF c.plots THEN figures \cup {n} ELSE figures
           during == IF c.stdout = "redirects" THEN "other" ELSE "buffer"
           output == [kind |-> "stdout",
                      text |-> IF c.stdout = "prints" THEN "printed" ELSE ""]
           tb == [kind |-> "traceback",
                  text |-> IF stopped THEN "ValueError: Security Violation"
                           ELSE "Exception"]
           how == IF c.ends = "ok" THEN "returned"
                  ELSE IF c.ends = "exit" THEN "escaped" ELSE "caught"
           cap == CapturePlot(g1, figs1, saveOk)
           rendered == how = "returned" /\ g1.fig \in {"unbound", "plain"}
                       /\ figs1 # {}
       IN  /\ xGlobals' = g1
           /\ figures' = IF how = "returned" THEN cap.figures ELSE figs1
           /\ xRet' = IF how = "returned"
                      THEN <<TRUE, g1.result, output, cap.plot>>
                      ELSE IF how = "caught" THEN FailureTuple(g1, tb)
                      ELSE <<>>
           /\ xEscapes' = IF how = "escaped" THEN "SystemExit" ELSE None
           /\ sysStdout' = Restore(original_stdout, during, how)
           /\ stdoutBefore' = original_stdout
           /\ xCall' = [code |-> c, saveOk |-> saveOk \/ ~rendered]
           /\ atCapture' = IF how = "returned" THEN figs1 ELSE {}
           /\ nExec' = n
    /\ UNCHANGED <<orchVars, memVars, apiVars, cortexVars, profileVars>>

InitExec ==
    /\ Idle /\ MemoryEmpty /\ ServiceDown /\ CortexIdle /\ ProfileNone
    /\ \E stream \in Streams : ExecutorIn(stream)

NextExec == \E c \in ExecPrograms, saveOk \in BOOLEAN : ExecuteCodeCall(c, saveOk)

SpecExec == InitExec /\ [][NextExec]_vars

\* ------------------------------------- CortexAgent (agents/cortex_agent.py)
\* `a, b, c = t`: the assignment works when t has as many values as targets
UnpacksInto(t, targets) == Len(t) = targets

\* CortexAgent._generate_analysis_code: call_llm, then _clean_code
GenerateAnalysisCode(o) == Clean(CallLlm(DefaultModel, o, 0).result)

\* CortexAgent.run -> think -> act: a query arrives
CortexStart(q) ==
    /\ cxPc \in {"idle", "done", "raised"}
    /\ cxQueries < MaxQueries
    /\ cxQueries' = cxQueries + 1
    /\ cxQuery' = q
    /\ cxPc' = "generate"
    /\ cxCode' = NoCode /\ cxAttempt' = 0 /\ cxRet' = NoTuple
    /\ cxRetval' = NoTuple /\ cxResponse' = NoResponse /\ cxEscaped' = None
    /\ UNCHANGED <<cxGlobals, orchVars, memVars, apiVars, execVars, profileVars>>

\* act: code = self._generate_analysis_code(query)
CortexGenerate(o) ==
    /\ cxPc = "generate"
    /\ cxCode' = GenerateAnalysisCode(o)
    /\ cxPc' = "execute"
    /\ UNCHANGED <<cxQuery, cxAttempt, cxRet, cxRetval, cxResponse, cxEscaped,
                   cxGlobals, cxQueries, orchVars, memVars, apiVars, execVars, profileVars>>

\* _execute_with_retry: success, result, output = execute_code(code); a
\* tuple of another size raises ValueError out of the loop and out of act;
\* if success: return True, result, output
CortexExecute(len) ==
    /\ cxPc = "execute"
    /\ LET r == ExecuteCode(cxCode, cxGlobals, len)
       IN  /\ cxRet' = r.ret
           /\ cxGlobals' = r.globals
           /\ IF r.escapes # None
              THEN /\ cxPc' = "raised" /\ cxEscaped' = r.escapes
                   /\ cxRetval' = cxRetval
              ELSE IF ~UnpacksInto(r.ret, 3)
              THEN /\ cxPc' = "raised" /\ cxEscaped' = "ValueError"
                   /\ cxRetval' = cxRetval
              ELSE IF r.ret[1]
              THEN /\ cxPc' = "returned" /\ cxEscaped' = cxEscaped
                   /\ cxRetval' = <<TRUE, r.ret[2], r.ret[3]>>
              ELSE /\ cxPc' = "retry" /\ cxEscaped' = cxEscaped
                   /\ cxRetval' = cxRetval
    /\ UNCHANGED <<cxQuery, cxCode, cxAttempt, cxResponse, cxQueries, orchVars,
                   memVars, apiVars, execVars, profileVars>>

\* _execute_with_retry: the failed attempt is logged, new code is generated
\* and the loop goes on; after the third attempt it returns the failure
CortexRetry(o) ==
    /\ cxPc = "retry"
    /\ cxCode' = GenerateAnalysisCode(o)
    /\ cxAttempt' = cxAttempt + 1
    /\ IF cxAttempt + 1 < MaxAttempts
       THEN cxPc' = "execute" /\ cxRetval' = cxRetval
       ELSE cxPc' = "returned" /\ cxRetval' = <<FALSE, None, ExhaustedMsg>>
    /\ UNCHANGED <<cxQuery, cxRet, cxResponse, cxEscaped, cxGlobals, cxQueries,
                   orchVars, memVars, apiVars, execVars, profileVars>>

\* act: the AgentResult, confidence=1.0 if success else 0.0
CortexFinish ==
    /\ cxPc = "returned"
    /\ cxResponse' = [agent |-> "CortexAgent", action |-> "cortex_execution",
                      result |-> [prefix |-> "", text |-> ""],
                      confidence |-> Confidence(cxRetval[1]), code |-> cxCode]
    /\ cxPc' = "done"
    /\ UNCHANGED <<cxQuery, cxCode, cxAttempt, cxRet, cxRetval, cxEscaped,
                   cxGlobals, cxQueries, orchVars, memVars, apiVars, execVars, profileVars>>

InitCortex == Idle /\ MemoryEmpty /\ ServiceDown /\ ExecutorFresh /\ CortexIdle /\ ProfileNone

NextCortex ==
    \/ \E q \in Queries : CortexStart(q)
    \/ \E o \in LlmOutcomes : CortexGenerate(o)
    \/ \E len \in OutputLens : CortexExecute(len)
    \/ \E o \in LlmOutcomes : CortexRetry(o)
    \/ CortexFinish

SpecCortex == InitCortex /\ [][NextCortex]_vars

\* ----------------------------- the dataset profile (agents/agentic_base.py)
\* the columns of the datasets profiled
MaxColumns == 2

\* agentic_base.py:155
IdKeywords == {"id", "code", "key", "serial", "udi", "number", "name", "sku", "isbn"}
\* agentic_base.py:163
TargetKeywords ==
    {"fail", "target", "label", "class", "status", "output", "price", "total",
     "rating", "score"}
\* agentic_base.py:187
StopWords == {"the", "and", "for", "with", "from", "inc", "ltd"}

UpperCase == "ABCDEFGHIJKLMNOPQRSTUVWXYZ"
LowerCase == "abcdefghijklmnopqrstuvwxyz"
Char(str, i) == SubSeq(str, i, i)
Rest(str) == SubSeq(str, 2, Len(str))

\* `sub in str`
In(sub, str) ==
    \E i \in 1 .. Len(str) :
        i + Len(sub) - 1 <= Len(str) /\ SubSeq(str, i, i + Len(sub) - 1) = sub

\* str.lower()
LowerChar(ch) ==
    IF \E i \in 1 .. Len(UpperCase) : Char(UpperCase, i) = ch
    THEN Char(LowerCase, CHOOSE i \in 1 .. Len(UpperCase) : Char(UpperCase, i) = ch)
    ELSE ch
RECURSIVE Lower(_)
Lower(str) == IF str = "" THEN "" ELSE LowerChar(Char(str, 1)) \o Lower(Rest(str))

\* str.replace('_', ' ')
RECURSIVE ReplaceUnderscore(_)
ReplaceUnderscore(str) ==
    IF str = "" THEN ""
    ELSE (IF Char(str, 1) = "_" THEN " " ELSE Char(str, 1))
         \o ReplaceUnderscore(Rest(str))

\* str.split(): the words between runs of blanks
RECURSIVE SplitFrom(_, _, _)
SplitFrom(str, word, words) ==
    LET closed == IF word = "" THEN words ELSE Append(words, word)
    IN  IF str = "" THEN closed
        ELSE IF Char(str, 1) = " " THEN SplitFrom(Rest(str), "", closed)
        ELSE SplitFrom(Rest(str), word \o Char(str, 1), words)
Split(str) == SplitFrom(str, "", <<>>)

\* str.strip()
RECURSIVE StripLeft(_)
StripLeft(str) ==
    IF str # "" /\ Char(str, 1) = " " THEN StripLeft(Rest(str)) ELSE str
RECURSIVE StripRight(_)
StripRight(str) ==
    IF str # "" /\ Char(str, Len(str)) = " "
    THEN StripRight(SubSeq(str, 1, Len(str) - 1)) ELSE str
Strip(str) == StripRight(StripLeft(str))

\* a missing cell: pd.isna(val)
NaN == "<NaN>"

\* a column: its name, whether select_dtypes counts it as a number or as
\* object/category, whether its values are all different (is_unique), the
\* distinct values unique() returns, whether unique() works at all (it raises
\* on unhashable cells), and whether there are more than 1000 of them
ColumnNames == {"Order_ID", "Paid", "price", "the_city"}
ValueLists == {<<>>, <<"US">>, <<" Orange Juice ", "the">>, <<NaN, "M">>}
NumericColumns ==
    [name : ColumnNames, dtype : {"number"}, is_unique : BOOLEAN,
     values : {<<>>}, enumerable : {TRUE}, huge : {FALSE}]
CategoricalColumns ==
    [name : ColumnNames, dtype : {"object"}, is_unique : BOOLEAN,
     values : ValueLists, enumerable : BOOLEAN, huge : {FALSE}]
    \cup [name : ColumnNames, dtype : {"object"}, is_unique : {TRUE},
          values : {<<"US">>}, enumerable : {TRUE}, huge : {TRUE}]
ColumnsIn == NumericColumns \cup CategoricalColumns

\* the datasets profiled: up to MaxColumns columns of different names
SeqsUpTo(S, n) == UNION {[1 .. k -> S] : k \in 0 .. n}
DatasetsIn ==
    {[columns |-> cols] : cols \in
        {c \in SeqsUpTo(ColumnsIn, MaxColumns) :
            \A i, j \in DOMAIN c : i # j => c[i].name # c[j].name}}

\* [c for c in cols if test(c)] is SelectSeq(cols, test); these are the names
Names(chosen) == [i \in 1 .. Len(chosen) |-> chosen[i].name]

HasIdKeyword(col) == \E x \in IdKeywords : In(x, Lower(col.name))
HasTargetKeyword(col) == \E x \in TargetKeywords : In(x, Lower(col.name))
IsNumeric(col) == col.dtype = "number"
IsCategorical(col) == col.dtype = "object"

\* value_map[key].append(col) unless it is there, the key made if new
Put(value_map, key, col) ==
    IF key \in DOMAIN value_map
    THEN IF \E i \in DOMAIN value_map[key] : value_map[key][i] = col
         THEN value_map
         ELSE [value_map EXCEPT ![key] = Append(@, col)]
    ELSE [k \in DOMAIN value_map \cup {key} |->
             IF k = key THEN <<col>> ELSE value_map[k]]

\* _build_value_map.add_token
AddToken(value_map, token, col) ==
    IF Len(token) > 2 /\ token \notin StopWords
    THEN Put(value_map, token, col)
    ELSE value_map

RECURSIVE AddTokens(_, _, _)
AddTokens(value_map, tokens, col) ==
    IF tokens = <<>> THEN value_map
    ELSE AddTokens(AddToken(value_map, tokens[1], col), Tail(tokens), col)

\* _build_value_map, step 1: the words of every column name
RECURSIVE MapColumnNames(_, _)
MapColumnNames(value_map, names) ==
    IF names = <<>> THEN value_map
    ELSE MapColumnNames(
             AddTokens(value_map, Split(ReplaceUnderscore(Lower(names[1]))),
                       names[1]),
             Tail(names))

\* _build_value_map, step 2, one value: the whole normalized value becomes a
\* key as it is, its words go through add_token
MapValue(value_map, val, col) ==
    IF val = NaN THEN value_map
    ELSE LET val_str == Lower(Strip(val))
         IN  IF val_str = "" THEN value_map
             ELSE AddTokens(Put(value_map, val_str, col), Split(val_str), col)

RECURSIVE MapValues(_, _, _)
MapValues(value_map, vals, col) ==
    IF vals = <<>> THEN value_map
    ELSE MapValues(MapValue(value_map, vals[1], col), Tail(vals), col)

\* _build_value_map, step 2: every categorical column; one whose unique()
\* raises, or that has more than 1000 values (line 203), is passed over
RECURSIVE MapCategoricals(_, _)
MapCategoricals(value_map, cols) ==
    IF cols = <<>> THEN value_map
    ELSE LET col == cols[1]
             next == IF ~IsCategorical(col) \/ ~col.enumerable \/ col.huge
                     THEN value_map
                     ELSE MapValues(value_map, col.values, col.name)
         IN  MapCategoricals(next, Tail(cols))

\* AgentContext._build_value_map
BuildValueMap(data) ==
    LET categorical_cols == Names(SelectSeq(data.columns, IsCategorical))
        numeric_cols == Names(SelectSeq(data.columns, IsNumeric))
    IN  MapCategoricals(
            MapColumnNames(<<>>, categorical_cols \o numeric_cols),
            data.columns)

\* AgentContext.__init__: the profile, or the exception it ends with.
\* self.columns[0] is read when no name has an id keyword, also when there
\* is no column
AgentContextInit(data) ==
    LET matched == Names(SelectSeq(data.columns, HasIdKeyword))
    IN  IF matched = <<>> /\ data.columns = <<>>
        THEN [NoProfile EXCEPT !.raised = "IndexError"]
        ELSE [raised |-> None,
              columns |-> Names(data.columns),
              numeric_cols |-> Names(SelectSeq(data.columns, IsNumeric)),
              categorical_cols |-> Names(SelectSeq(data.columns, IsCategorical)),
              id_cols |-> IF matched = <<>> /\ data.columns[1].is_unique
                          THEN <<data.columns[1].name>>
                          ELSE matched,
              target_cols |-> Names(SelectSeq(data.columns, HasTargetKeyword)),
              value_to_cols |-> BuildValueMap(data)]

\* context = AgentContext(data)
BuildProfile ==
    /\ profile = NoProfile
    /\ profile' = AgentContextInit(pData)
    /\ UNCHANGED <<pData, orchVars, memVars, apiVars, execVars, cortexVars>>

InitProfile ==
    /\ Idle /\ MemoryEmpty /\ ServiceDown /\ ExecutorFresh /\ CortexIdle
    /\ pData \in DatasetsIn
    /\ profile = NoProfile

NextProfile == BuildProfile

SpecProfile == InitProfile /\ [][NextProfile]_vars

\* ------------------------------------------------------------ the claims
\* the critic's verdict on the initial code of the query was REJECTED
VerdictRejected == criticResult.head = "REJECTED"

\* how a query ended
EndedInSuccess == pc = "done" /\ Len(ret) > 0 /\ ret[1]
EndedInRejection == pc = "done" /\ VerdictRejected
EndedInExhaustion == pc = "done" /\ ~VerdictRejected /\ Len(ret) > 0 /\ ~ret[1]

\* C1: once the critic has rejected the initial code of a query, the executor
\* has not been and is not invoked for it, no code is regenerated and no
\* attempt is counted
C1_RejectionSpendsNothing ==
    VerdictRejected =>
        /\ execCalls = 0
        /\ genCalls = 1
        /\ attempt = 0
        /\ failedAttempts = 0
        /\ pc = "done"
C1_Witness ==
    /\ pc = "done"
    /\ VerdictRejected
    /\ response.action = "error"
    /\ nQueries = 2

\* C2: when _execute_with_retry returns, execute_code has been invoked at
\* most 3 times in the query
C2_AtMostThreeExecutions == pc = "returned" => execCalls <= 3

\* C3: no exception leaves OrchestratorAgent.act
C3_NoExceptionEscapes == escaped = None /\ pc # "raised"

\* C4: no program containing a term of the critic's denylist reaches exec()
C4_NoForbiddenProgramRuns == execdTerms = {}

\* C5: with memory enabled, save_context has been called exactly once in a
\* query that ended in success and not at all otherwise
C5_SaveIffSuccess ==
    memory => Len(saved) = (IF EndedInSuccess THEN 1 ELSE 0)
C5_Witness ==
    /\ memory
    /\ EndedInSuccess
    /\ Len(saved) = 1
    /\ failedAttempts > 0

\* C6: with memory enabled, the record saved for a successful query pairs the
\* query with the code whose execution succeeded
C6_SavedCodeIsFinalCode ==
    (memory /\ EndedInSuccess) => saved = <<[intent |-> query, code |-> okCode]>>

\* C7: the critic runs once per query, on the initial code, before the first
\* execution, and not again on regenerated code
C7_ReviewedOnce ==
    /\ reviews <= 1
    /\ (execCalls > 0 \/ genCalls > 1) => reviews = 1
    /\ reviews = 1 => reviewed = code0
    /\ pc \in {"done", "returned", "raised"} => reviews = 1
C7_Witness ==
    /\ pc = "done"
    /\ genCalls = 3
    /\ reviews = 1
    /\ code # code0

\* C8: a query whose first execution failed and whose second version of the
\* code executed successfully ends in success with confidence 1.0, 2 executions
\* and the one initial review
C8_SecondVersionSucceeds ==
    (pc = "done" /\ firstFailed /\ genCalls = 2 /\ okCode = code) =>
        /\ response.confidence = "1.0"
        /\ execCalls = 2
        /\ reviews = 1

C10_BinaryConfidence ==
    pc = "done" =>
        /\ response.confidence \in {"1.0", "0.0"}
        /\ response.confidence = "1.0" <=> EndedInSuccess
        /\ (EndedInRejection \/ EndedInExhaustion) => response.confidence = "0.0"
C10_Witness ==
    /\ EndedInSuccess
    /\ response.confidence = "1.0"
    /\ nQueries = 2

\* C11: every call of execute_code returns an outcome to its caller (a success
\* tuple, or a failure tuple carrying the trace); no exception leaves it
C11_ExecutorNeverPropagates ==
    execCalls > 0 =>
        /\ Len(ret) \in {3, 4}
        /\ ~ret[1] => ret[3] \in {SecurityTrace, ExecTrace}

\* C12: a query in which a call_llm failed on both of its requests does not
\* end in success with confidence 1.0
C12_GeneratorFailureIsFatal ==
    genFailed => ~(pc = "done" /\ response.confidence = "1.0")

\* C13: a call_llm makes one request to the default model and, when that one
\* fails, exactly one more to llama3.1; when both fail it returns "" (and
\* nothing is raised)
C13_AtMostTwoRequests ==
    genCalls > 0 =>
        /\ llm.requests = (IF llm.failures = 0 THEN 1 ELSE 2)
        /\ llm.models = (IF llm.failures = 0
                         THEN <<"deepseek-v3.1:671b-cloud">>
                         ELSE <<"deepseek-v3.1:671b-cloud", "llama3.1">>)
        /\ llm.failed <=> llm.failures >= 2
        /\ (llm.failed /\ pc = "critic") => code0 = EmptyCode
        /\ (llm.failed /\ pc \in {"execute", "returned"} /\ genCalls > 1)
              => code = EmptyCode
C13_Witness ==
    /\ pc = "critic"
    /\ llm.failed
    /\ llm.requests = 2
    /\ llm.failures = MaxFailures
    /\ code0 = EmptyCode

\* C15: the critic approves a code string exactly when it contains none of
\* os.system, subprocess, shutil, sys.exit, rm -rf and contains print( or one
\* of fig =, fig=, plt.
C15_ApprovedIff ==
    reviews = 1 =>
        /\ criticResult.head \in {"APPROVED", "REJECTED"}
        /\ criticResult.head = "APPROVED" <=>
              /\ reviewed.text \cap {"os.system", "subprocess", "shutil", "sys.exit",
                                     "rm -rf"} = {}
              /\ reviewed.text \cap {"print(", "fig =", "fig=", "plt."} # {}
C15_Witness ==
    /\ reviews = 1
    /\ criticResult.head = "APPROVED"
    /\ reviewed.text = {"fig="}

\* C16: the rejection act returns lists one reason for each denylist term in
\* the code and the liveness reason when the code has neither a print call nor
\* a visualization pattern, and nothing else
C16_AllReasonsListed ==
    (pc = "done" /\ response.action = "error") =>
        LET issues == response.result.issues
            listed == {issues[i] : i \in 1..Len(issues)}
            terms == code0.text \cap {"os.system", "subprocess", "shutil", "sys.exit",
                                      "rm -rf"}
            silent == code0.text \cap {"print(", "fig =", "fig=", "plt."} = {}
        IN  /\ \A t \in terms :
                  <<"Security Risk: Found forbidden term", t>> \in listed
            /\ silent =>
                  <<"Logic Error: Code does not print output or generate a chart.", "">>
                      \in listed
            /\ Len(issues) = Cardinality(terms) + (IF silent THEN 1 ELSE 0)
            /\ response.result.text = "REJECTED"
C16_Witness ==
    /\ pc = "done"
    /\ response.action = "error"
    /\ code0.text = {"shutil", "rm -rf"}
    /\ Len(response.result.issues) = 3

\* C19: the coder is called at most 3 times in a query
C19_AtMostThreeGenerations == genCalls <= 3

\* C20: the executor's context is never reset: every name executed code has
\* assigned, in any attempt of any query, is still bound, next to pd, np, df
\* and result
C20_BindingsPersist ==
    /\ assigned \subseteq globals
    /\ {"pd", "np", "df", "result"} \subseteq globals
\* a program that reads the name succeeds at once in the second query, on the
\* binding the first query left
C20_Witness ==
    /\ nQueries = 2
    /\ pc = "returned"
    /\ execCalls = 1
    /\ okCode.body = [binds |-> FALSE, fails |-> "if_unbound"]
    /\ assigned = {"x"}

\* C17: a save_context adds exactly one record, under an identifier no stored
\* record had, and leaves the stored records as they were; a recall leaves the
\* store as it was; only a clear removes records, and it removes all of them
C17_AppendOnly ==
    /\ memOp = "save_context" =>
          /\ \E id \in DOMAIN collection \ DOMAIN before :
                 DOMAIN collection = DOMAIN before \cup {id}
          /\ \A i \in DOMAIN before : collection[i] = before[i]
    /\ memOp = "recall" => collection = before
    /\ memOp = "clear" => DOMAIN collection = {}
    /\ \A i \in DOMAIN before :
          i \notin DOMAIN collection => memOp = "clear"
\* a save onto a store that holds a record, after a recall returned one and
\* after a clear removed one
C17_Witness ==
    /\ memOp = "save_context"
    /\ Cardinality(issued) = 3
    /\ Cardinality(DOMAIN collection) = 2
    /\ Len(recalled) = 1

\* C14: while requests are in flight together, no handler is inside the load
\* region while another is inside a query run, and no two handlers are inside
\* the load region together
C14_LoadsSerialized ==
    \A r1, r2 \in Requests :
        r1 # r2 => /\ ~(InLoad(r1) /\ InQuery(r2))
                   /\ ~(InLoad(r1) /\ InLoad(r2))
\* a load is replacing the dataset while a query and another load wait
C14_Witness ==
    \E r1, r2, r3 \in Requests :
        /\ handlers[r1].pc = "set_cortex"
        /\ handlers[r2].pc = "pending" /\ handlers[r2].kind = "analyze"
        /\ handlers[r3].pc = "pending" /\ handlers[r3].kind = "upload_file"

\* C18: every orchestrator a load has built has the profile computed from the
\* data it was built for, and its executor holds no binding made by code run
\* on another executor; a load that has succeeded built a new orchestrator,
\* and state.cortex is that one or a later one
C18_FreshContextAfterLoad ==
    /\ \A k \in 1 .. Len(heap) :
          /\ heap[k].profile = Profile(heap[k].built)
          /\ \A b \in heap[k].globals : b.by \in {0, k}
    /\ \A r \in Requests :
          (handlers[r].kind \in {"load_data", "upload_file"}
             /\ handlers[r].status = 200) =>
                /\ handlers[r].cortex \in 1 .. Len(heap)
                /\ stateCortex >= handlers[r].cortex
                /\ \A r2 \in Requests :
                      r2 # r => handlers[r2].cortex # handlers[r].cortex
                                \/ handlers[r2].kind = "analyze"
\* a query bound a name, a load then succeeded, and a query has run on the
\* new orchestrator
C18_Witness ==
    /\ \E k \in 1 .. Len(heap) :
          /\ k # stateCortex
          /\ [name |-> "x", by |-> k] \in heap[k].globals
    /\ \E r \in Requests :
          /\ handlers[r].kind = "analyze" /\ handlers[r].status = 200
          /\ handlers[r].cortex = stateCortex
    /\ \A r \in Requests : ~InLoad(r)

\* the last execute_code call returned success
XSucceeded == Len(xRet) = 4
\* the last execute_code call returned failure
XFailed == Len(xRet) = 3

\* C21 as stated: a successful execution returns the JSON export of a fig
\* binding that has to_json; otherwise, with a pyplot figure open, a PNG, and
\* closes every figure; otherwise nothing
C21_ArtifactByPriority ==
    XSucceeded =>
        IF xGlobals.fig \in {"plotly", "broken"}
        THEN xRet[4].type = "plotly"
        ELSE IF atCapture # {}
             THEN xRet[4].type = "image" /\ figures = {}
             ELSE xRet[4].type = "none"
\* C21 amended: the same, unless to_json or savefig raises: then nothing is
\* returned and no figure is closed
C21_ArtifactByPriorityUnlessRaised ==
    XSucceeded =>
        IF xGlobals.fig \in {"plotly", "broken"}
        THEN IF xGlobals.fig = "plotly"
             THEN xRet[4].type = "plotly" /\ figures = atCapture
             ELSE xRet[4].type = "none" /\ figures = atCapture
        ELSE IF atCapture # {}
             THEN IF xCall.saveOk
                  THEN xRet[4].type = "image" /\ figures = {}
                  ELSE xRet[4].type = "none" /\ figures = atCapture
             ELSE xRet[4].type = "none"
\* a run that both bound a plotly fig and opened a pyplot figure returned the
\* plotly export
C21_Witness ==
    /\ XSucceeded
    /\ xCall.code.fig = "plotly" /\ xCall.code.plots
    /\ xRet[4].type = "plotly"
    /\ atCapture # {}

\* C22: a returned failure carries None as result, no artifact slot and the
\* traceback as output; a returned success carries the value of the result
\* binding and the captured stdout text, and no traceback; a call that
\* returns returns one of the two
C22_ExactlyOneSide ==
    /\ XFailed =>
          /\ xRet[1] = FALSE /\ xRet[2] = NoValue
          /\ xRet[3].kind = "traceback"
    /\ XSucceeded =>
          /\ xRet[1] = TRUE /\ xRet[2] = xGlobals.result
          /\ xRet[3].kind = "stdout"
          /\ xRet[3].text = "printed" <=> xCall.code.stdout = "prints"
    /\ (nExec > 0 /\ xEscapes = None) => (XFailed \/ XSucceeded)
\* a program assigned result and printed, then raised
C22_Witness ==
    /\ XFailed
    /\ xCall.code.result /\ xCall.code.stdout = "prints"
    /\ xGlobals.result = [by |-> nExec]

\* C27: when an execute_code call has ended, by return or by exception,
\* sys.stdout is the stream it was when the call began, and never the
\* capture buffer or a stream the executed code installed
C27_StdoutRestored ==
    nExec > 0 => (sysStdout = stdoutBefore /\ sysStdout \in Streams)
\* the third call in a row ran a program that replaced sys.stdout itself and
\* left by SystemExit
C27_Witness ==
    /\ nExec = 3
    /\ xEscapes = "SystemExit"
    /\ xCall.code.stdout = "redirects"
    /\ sysStdout = "logfile"

\* C28: a successful execution whose code bound no fig and opened no pyplot
\* figure returns no artifact
C28_NoStaleArtifact ==
    (XSucceeded /\ xCall.code.fig = "keep" /\ ~xCall.code.plots) =>
        xRet[4].type = "none"

\* C29: the code reported in the metadata of a successful final answer is the
\* code whose execution succeeded
C29_ReportedCodeIsExecutedCode ==
    EndedInSuccess => response.code = okCode

\* C26: when an execute_code call of the CortexAgent has returned success,
\* _execute_with_retry returns (True, result, output) and no exception leaves
\* act
C26_CortexReturnsSuccess ==
    (Len(cxRet) = 4 /\ cxRet[1]) =>
        /\ cxPc \in {"returned", "done"}
        /\ cxRetval = <<TRUE, cxRet[2], cxRet[3]>>

\* C30: when no load is under way the lock is free and state.cortex is the
\* agent built from state.data (or both are None), also after a load that
\* failed
C30_LoadIsAtomic ==
    (\A r \in Requests : ~InLoad(r)) =>
        /\ lock = 0
        /\ stateCortex = 0 <=> stateData = None
        /\ stateCortex # 0 => heap[stateCortex].built = stateData

\* AgentContext(data) has run
Profiled == profile # NoProfile

\* C23: id_cols is the list of the columns whose lowercased name contains an
\* id keyword; when there is none, it is the first column if that column's
\* values are all different, and empty otherwise
C23_IdColumns ==
    Profiled =>
        LET matched == Names(SelectSeq(pData.columns, HasIdKeyword))
        IN  /\ profile.raised = None
            /\ matched # <<>> => profile.id_cols = matched
            /\ (matched = <<>> /\ pData.columns # <<>>
                   /\ pData.columns[1].is_unique) =>
                  profile.id_cols = <<pData.columns[1].name>>
            /\ (matched = <<>> /\ (pData.columns = <<>>
                   \/ ~pData.columns[1].is_unique)) =>
                  profile.id_cols = <<>>

\* C24: no key of value_to_cols has two characters or fewer, and none is a
\* stop word
C24_NoShortOrStopKeys ==
    Profiled =>
        \A key \in DOMAIN profile.value_to_cols :
            Len(key) > 2 /\ key \notin StopWords

\* C25: AgentContext(data) raises for no dataset
C25_ProfilingNeverRaises == Profiled => profile.raised = None

====
